---- MODULE Spec2Model ----
(***************************************************************************)
(* A model of SaveVault (PC-Games-Saves-Backup-Restore): the directory     *)
(* copy and clear engines and the backup catalog of                        *)
(* src/services/fileService.ts, and the backup / restore workflows of      *)
(* src/App.tsx that compose them.                                          *)
(*                                                                         *)
(* The disk is one tree.  A directory handle is the path it names (a       *)
(* sequence of entry names); a handle whose directory was removed and      *)
(* created again names the new directory, as the browser's handles do.     *)
(***************************************************************************)
EXTENDS Integers, Sequences, FiniteSets, Bags, TLC

VARIABLES
    fs,       \* the disk: a function from the existing paths to "dir" or a file's content
    eng,      \* the running copyDirectory / clearDirectory call: its loop frames and outcome
    hist,     \* history: the engine calls that ended, each with the disk before and after
    now,      \* the clock: what Date.now() returns
    listed,   \* history: the last listBackups call, its enumeration and its result
    state,    \* App: the AppState of useState (paths, backups, isLoading, statusMessage)
    customBackupName,  \* App: the label typed into the input
    selectedBackup,    \* App: the name chosen in the select
    db,       \* the handles persisted by dbService under 'sourcePath' and 'backupPath'
    granted,  \* the standing permissions of this session: pairs <<handle, mode>>
    wf,       \* the running handleBackup / handleRestore call: its place and its locals
    refresh,  \* the refreshBackups calls in flight: a bag of vault handles
    boot,     \* whether the init of useEffect has still to run
    ops       \* how many handlers the user has started

engineVars == <<fs, eng, hist>>
appVars == <<state, customBackupName, selectedBackup, db, granted, wf, refresh, boot,
            ops>>
vars == <<fs, eng, hist, now, listed, state, customBackupName, selectedBackup, db,
          granted, wf, refresh, boot, ops>>

----------------------------------------------------------------------------
(* Bounds of the model *)

\* the entries (files and directories) of an initial disk
MaxEntries == 5
\* the longest path the disk holds: a directory is not created below it
MaxPathLen == 3
\* the engine calls of one behaviour of SpecEngine
MaxRuns == 2
\* the entries of the vault that SpecCatalog lists
MaxVault == 3
\* the milliseconds that may pass while one listing enumerates the vault
MaxTicks == 1
\* the workflows and folder picks the user starts in one behaviour of Spec
MaxOps == 2
\* the seconds that pass in one behaviour of Spec
MaxSeconds == 1

Names == {"a", "b"}
Contents == {"x", "y"}
Dir == "dir"

----------------------------------------------------------------------------
(* The disk *)

Root == << >>

IsPrefix(p, q) == Len(p) <= Len(q) /\ SubSeq(q, 1, Len(p)) = p

Exists(f, p) == p \in DOMAIN f
IsDir(f, p) == p \in DOMAIN f /\ f[p] = Dir
IsFile(f, p) == p \in DOMAIN f /\ f[p] # Dir

\* the names of the immediate entries of directory p: what p.values() yields
ChildNames(f, p) ==
    {q[Len(q)] : q \in {r \in DOMAIN f : Len(r) = Len(p) + 1 /\ IsPrefix(p, r)}}

Dirs(f) == {p \in DOMAIN f : f[p] = Dir}

\* the tree below p, by relative path
Subtree(f, p) ==
    LET below == {q \in DOMAIN f : IsPrefix(p, q) /\ q # p}
        rel(q) == SubSeq(q, Len(p) + 1, Len(q))
    IN  [r \in {rel(q) : q \in below} |-> f[p \o r]]

\* neither directory lies in the other (nor are they the same)
Disjoint(p, q) == ~IsPrefix(p, q) /\ ~IsPrefix(q, p)

Put(f, p, v) == [q \in DOMAIN f \cup {p} |-> IF q = p THEN v ELSE f[q]]

\* a removal that leaves a directory that has entries in place
RemoveEntryFlat(f, p) ==
    IF \E q \in DOMAIN f : IsPrefix(p, q) /\ q # p THEN f
    ELSE [q \in DOMAIN f \ {p} |-> f[q]]

\* removeEntry(name, {recursive: true}): the entry and everything below it
RemoveEntry(f, p) == [q \in {r \in DOMAIN f : ~IsPrefix(p, r)} |-> f[q]]

\* a write that keeps what the file held and appends to it
WriteFileAppending(f, to, content) ==
    Put(f, to, IF IsFile(f, to) THEN f[to] \o content ELSE content)

\* lines 13-16: createWritable, write, close: the file holds exactly the content
WriteFile(f, to, content) == Put(f, to, content)

\* a directory made anew, what it held removed
MakeDirFresh(f, to) == Put(RemoveEntry(f, to), to, Dir)

\* getDirectoryHandle(name, {create: true}): the directory is created or reused
MakeDir(f, to) == Put(f, to, Dir)

\* the disks of at most k entries: one entry added at a time under a directory
RECURSIVE DisksOf(_)
DisksOf(k) ==
    IF k = 0 THEN {[p \in {Root} |-> Dir]}
    ELSE LET smaller == DisksOf(k - 1)
             free(f) == {p \in {d \o <<n>> : d \in Dirs(f), n \in Names} :
                            p \notin DOMAIN f /\ Len(p) <= MaxPathLen}
         IN  smaller \cup UNION {
                 {Put(f, p, v) : p \in free(f), v \in Contents \cup {Dir}} : f \in smaller}

InitialDisks == DisksOf(MaxEntries)

----------------------------------------------------------------------------
(* The engines: copyDirectory and clearDirectory, one step per loop turn *)

\* One active `for await (const entry of dir.values())` loop.  init is the
\* directory's listing when the loop started: the iterator yields every entry
\* of it that still exists, and may or may not yield an entry created since.
Frame(f, s, t) == [src |-> s, tgt |-> t, seen |-> {}, init |-> ChildNames(f, s)]

NoEngine == [op |-> "none", st |-> "idle", stack |-> << >>, src |-> Root, tgt |-> Root,
             before |-> << >>, msg |-> ""]

NotFoundError == "A requested file or directory could not be found."
TypeMismatchError == "The path supplied exists, but was not an entry of requested type."

Running(op) == eng.op = op /\ eng.st = "run" /\ eng.stack # << >>

Top == eng.stack[Len(eng.stack)]

\* the entries the loop of frame fr may yield next
Pending(f, fr) == ChildNames(f, fr.src) \ fr.seen

\* the loop of frame fr may end: nothing of its starting listing is left to yield
Exhausted(f, fr) == (fr.init \cap ChildNames(f, fr.src)) \subseteq fr.seen

Ended(e, st, after) ==
    [op |-> e.op, src |-> e.src, tgt |-> e.tgt, st |-> st, before |-> e.before,
     after |-> after]

\* the call ends with outcome st (the promise settles), leaving the disk as after
Settle(st, after, msg) ==
    /\ eng' = [eng EXCEPT !.st = st, !.stack = << >>, !.msg = msg]
    /\ hist' = Append(hist, Ended(eng, st, after))

\* what a step of the file system rejects with when the platform fails it (the
\* file is locked, the disk is full, the drive is gone)
IOFailure == "The operation failed."

\* a new file with nothing written to it yet
Empty == ""

\* a rejection that a try/catch around the recursive call absorbs: the inner call
\* is given up and its caller's loop goes on with the next entry
RejectCaught(after, msg) ==
    /\ fs' = after
    /\ IF Len(eng.stack) > 1
       THEN /\ eng' = [eng EXCEPT !.stack = SubSeq(@, 1, Len(@) - 1)]
            /\ hist' = hist
       ELSE Settle("err", after, msg)

\* an awaited step rejects with msg, the disk left as `after`: nothing catches
\* it, so every enclosing call ends and the engine's promise rejects
Reject(after, msg) ==
    /\ fs' = after
    /\ Settle("err", after, msg)

MarkSeen(n) == [eng.stack EXCEPT ![Len(eng.stack)].seen = @ \cup {n}]

\* a directory entry that is created under the target but not descended into
EnterNot(stack, f, from, to) == stack

\* line 19: the recursive call, whose loop starts on disk f
Enter(stack, f, from, to) == Append(stack, Frame(f, from, to))

\* the call to the engine itself, on disk f: the outermost loop starts
Called(f, op, s, t) ==
    [op |-> op, st |-> "run", stack |-> <<Frame(f, s, t)>>, src |-> s, tgt |-> t,
     before |-> f, msg |-> ""]

EngineCallOn(f, op, s, t) == eng' = Called(f, op, s, t)

EngineCall(op, s, t) == EngineCallOn(fs, op, s, t)

\* lines 11-16: a file entry is read and written under the target
CopyFile ==
    /\ Running("copy")
    /\ \E n \in Pending(fs, Top) :
        LET from == Top.src \o <<n>>
            to == Top.tgt \o <<n>>
        IN  /\ IsFile(fs, from)
            /\ Len(to) <= MaxPathLen
            /\ IF ~IsDir(fs, Top.tgt) \/ IsDir(fs, to)
               THEN \* getFileHandle rejects: NotFoundError, TypeMismatchError
                    Reject(fs, IF IsDir(fs, to) THEN TypeMismatchError ELSE NotFoundError)
               ELSE /\ fs' = WriteFile(fs, to, fs[from])
                    /\ eng' = [eng EXCEPT !.stack = MarkSeen(n)]
                    /\ hist' = hist

\* lines 17-19: a directory entry is created (or reused) under the target and entered
CopyDir ==
    /\ Running("copy")
    /\ \E n \in Pending(fs, Top) :
        LET from == Top.src \o <<n>>
            to == Top.tgt \o <<n>>
        IN  /\ IsDir(fs, from)
            /\ Len(to) <= MaxPathLen
            /\ IF ~IsDir(fs, Top.tgt) \/ IsFile(fs, to)
               THEN \* getDirectoryHandle rejects: NotFoundError, TypeMismatchError
                    Reject(fs, IF IsFile(fs, to) THEN TypeMismatchError ELSE NotFoundError)
               ELSE /\ fs' = MakeDir(fs, to)
                    /\ eng' = [eng EXCEPT !.stack = Enter(MarkSeen(n), fs', from, to)]
                    /\ hist' = hist

\* line 10 / 21: the loop of the innermost call ends and the call returns; values()
\* of a directory that is gone rejects with NotFoundError
CopyReturn ==
    /\ Running("copy")
    /\ IF ~IsDir(fs, Top.src)
       THEN Reject(fs, NotFoundError)
       ELSE /\ fs' = fs
            /\ Exhausted(fs, Top)
            /\ IF Len(eng.stack) = 1
               THEN Settle("ok", fs, "")
               ELSE /\ eng' = [eng EXCEPT !.stack = SubSeq(@, 1, Len(@) - 1)]
                    /\ hist' = hist

\* lines 12-16: getFile, createWritable, write or close rejects for a file entry;
\* the file that getFileHandle has just created is then left with nothing in it
CopyFault ==
    /\ Running("copy")
    /\ \E n \in Pending(fs, Top) :
        LET from == Top.src \o <<n>>
            to == Top.tgt \o <<n>>
        IN  /\ IsFile(fs, from)
            /\ Len(to) <= MaxPathLen
            /\ IsDir(fs, Top.tgt) /\ ~IsDir(fs, to)
            /\ \E after \in {fs} \cup (IF Exists(fs, to) THEN {} ELSE {Put(fs, to, Empty)}) :
                Reject(after, IOFailure)

\* a loop that passes over the entries and removes none
ClearEntrySkipping ==
    /\ Running("clear")
    /\ \E n \in Pending(fs, Top) :
        /\ fs' = fs
        /\ eng' = [eng EXCEPT !.stack = MarkSeen(n)]
        /\ hist' = hist

\* lines 28-30: one entry of the directory is removed with all below it
ClearEntry ==
    /\ Running("clear")
    /\ \E n \in Pending(fs, Top) :
        /\ fs' = RemoveEntry(fs, Top.src \o <<n>>)
        /\ eng' = [eng EXCEPT !.stack = MarkSeen(n)]
        /\ hist' = hist

\* line 28 / 31: the loop ends
ClearReturn ==
    /\ Running("clear")
    /\ IF ~IsDir(fs, Top.src)
       THEN Reject(fs, NotFoundError)
       ELSE /\ fs' = fs
            /\ Exhausted(fs, Top)
            /\ Settle("ok", fs, "")

\* line 29: removeEntry rejects (the entry is locked), nothing of it removed
ClearFault ==
    /\ Running("clear")
    /\ \E n \in Pending(fs, Top) : Reject(fs, IOFailure)

EngineStep ==
    CopyFile \/ CopyDir \/ CopyReturn \/ CopyFault \/ ClearEntry \/ ClearReturn \/ ClearFault

----------------------------------------------------------------------------
(* Time.  A time value is <<day, ms>>: the days since 1970-01-01 and the      *)
(* milliseconds into that day, which together are the epoch milliseconds of   *)
(* Date.now() and Date.prototype.getTime().                                   *)

MsPerDay == 24 * 60 * 60 * 1000

\* the time value of `ms` milliseconds after the start of day `day`
MakeDate(day, ms) == <<day + (ms \div MsPerDay), ms % MsPerDay>>

AddMs(t, ms) == MakeDate(t[1], t[2] + ms)

Earlier(a, b) == a[1] < b[1] \/ (a[1] = b[1] /\ a[2] < b[2])

\* the sign of b - a
Minus(b, a) == IF Earlier(a, b) THEN 1 ELSE IF Earlier(b, a) THEN -1 ELSE 0

\* the day number of the civil date y-m-d (m is 1..12) in the proleptic Gregorian calendar
DaysFromCivil(y, m, d) ==
    LET yy == IF m <= 2 THEN y - 1 ELSE y
        era == yy \div 400
        yoe == yy - era * 400
        mp == IF m > 2 THEN m - 3 ELSE m + 9
        doy == ((153 * mp + 2) \div 5) + d - 1
        doe == yoe * 365 + (yoe \div 4) - (yoe \div 100) + doy
    IN  era * 146097 + doe - 719468

\* the civil date <<y, m, d>> of a day number
CivilFromDays(z) ==
    LET zz == z + 719468
        era == zz \div 146097
        doe == zz - era * 146097
        yoe == (doe - (doe \div 1460) + (doe \div 36524) - (doe \div 146096)) \div 365
        doy == doe - (365 * yoe + (yoe \div 4) - (yoe \div 100))
        mp == (5 * doy + 2) \div 153
        d == doy - ((153 * mp + 2) \div 5) + 1
        m == IF mp < 10 THEN mp + 3 ELSE mp - 9
        y == yoe + era * 400
    IN  <<IF m <= 2 THEN y + 1 ELSE y, m, d>>

\* The host's time zone, which new Date(y, m, d, h, mi, s) reads its arguments
\* in: five hours behind UTC, four while daylight saving is in force.  The local
\* times 02:00-02:59 of 2024-03-10 do not exist (the clocks jump to 03:00); a
\* time in that gap is read with the offset in force before the jump.
StdOffsetMinutes == -300
DstOffsetMinutes == -240
DstFirstLocal == <<DaysFromCivil(2024, 3, 10), 3 * 60 * 60 * 1000>>
DstEndLocal == <<DaysFromCivil(2024, 11, 3), 2 * 60 * 60 * 1000>>

LocalOffsetMinutes(local) ==
    IF ~Earlier(local, DstFirstLocal) /\ Earlier(local, DstEndLocal)
    THEN DstOffsetMinutes
    ELSE StdOffsetMinutes

\* new Date(year, monthIndex, day, hours, minutes, seconds).getTime(): years 0..99
\* mean 1900..1999, and a component out of its range carries into the next one
LocalDate(year, monthIndex, day, hours, minutes, seconds) ==
    LET yr == IF year >= 0 /\ year <= 99 THEN 1900 + year ELSE year
        dayNo == DaysFromCivil(yr + (monthIndex \div 12), (monthIndex % 12) + 1, 1)
                     + day - 1
        local == MakeDate(dayNo, hours * 3600000 + minutes * 60000 + seconds * 1000)
    IN  AddMs(local, 0 - LocalOffsetMinutes(local) * 60000)

----------------------------------------------------------------------------
(* Strings: the backup names are read character by character *)

Digits == "0123456789"

Char(s, i) == SubSeq(s, i, i)

IsDigit(c) == \E v \in 1..10 : Char(Digits, v) = c

DigitValue(c) == (CHOOSE v \in 1..10 : Char(Digits, v) = c) - 1

\* parseInt of a string of decimal digits
RECURSIVE ParseInt(_)
ParseInt(s) ==
    IF Len(s) = 0 THEN 0
    ELSE ParseInt(SubSeq(s, 1, Len(s) - 1)) * 10 + DigitValue(Char(s, Len(s)))

\* /(\d{4}-\d{2}-\d{2}_\d{2}-\d{2}-\d{2})/ with d for \d
TimestampPattern == "dddd-dd-dd_dd-dd-dd"

MatchesAt(name, i) ==
    /\ i + Len(TimestampPattern) - 1 <= Len(name)
    /\ \A k \in 1..Len(TimestampPattern) :
        IF Char(TimestampPattern, k) = "d"
        THEN IsDigit(Char(name, i + k - 1))
        ELSE Char(name, i + k - 1) = Char(TimestampPattern, k)

\* entry.name.match(...): the leftmost match, "" for null
RECURSIVE MatchFrom(_, _)
MatchFrom(name, i) ==
    IF i + Len(TimestampPattern) - 1 > Len(name) THEN ""
    ELSE IF MatchesAt(name, i) THEN SubSeq(name, i, i + Len(TimestampPattern) - 1)
    ELSE MatchFrom(name, i + 1)

TimestampMatch(name) == MatchFrom(name, 1)

\* s.split(/[_-]/)
RECURSIVE SplitFrom(_, _, _)
SplitFrom(s, start, i) ==
    IF i > Len(s) THEN <<SubSeq(s, start, Len(s))>>
    ELSE IF Char(s, i) \in {"_", "-"}
    THEN <<SubSeq(s, start, i - 1)>> \o SplitFrom(s, i + 1, i + 1)
    ELSE SplitFrom(s, start, i + 1)

Split(s) == SplitFrom(s, 1, 1)

----------------------------------------------------------------------------
(* The backup catalog: listBackups *)

\* lines 46-55: the matched text back to a time
\* the month passed to Date as it is written, not made 0-indexed
DateOfPartsMonthAsWritten(parts) ==
    LocalDate(ParseInt(parts[1]), ParseInt(parts[2]), ParseInt(parts[3]),
              ParseInt(parts[4]), ParseInt(parts[5]), ParseInt(parts[6]))

DateOfParts(parts) ==
    LocalDate(ParseInt(parts[1]), ParseInt(parts[2]) - 1, ParseInt(parts[3]),
              ParseInt(parts[4]), ParseInt(parts[5]), ParseInt(parts[6]))

\* a fallback of time 0 in place of Date.now()
DateOfMatchFromZero(timestampMatch, clock) ==
    IF timestampMatch = "" THEN <<0, 0>> ELSE DateOfParts(Split(timestampMatch))

DateOfMatch(timestampMatch, clock) ==
    IF timestampMatch = "" THEN clock ELSE DateOfParts(Split(timestampMatch))

\* lines 42-56: the timestamp of a backup named `name` when Date.now() is `clock`
Timestamp(name, clock) == DateOfMatch(TimestampMatch(name), clock)

\* lines 58-62
BackupRecord(d, name, clock) ==
    [name |-> name, handle |-> d \o <<name>>, timestamp |-> Timestamp(name, clock)]

\* backups.sort((a, b) => b.timestamp - a.timestamp): Array.prototype.sort is
\* stable; by insertion, each record behind those the comparator does not put after it
CompareOldestFirst(a, b) == Minus(a.timestamp, b.timestamp)

Compare(a, b) == Minus(b.timestamp, a.timestamp)

\* x goes behind the last record that the comparator does not put after it
RECURSIVE InsertFrom(_, _, _)
InsertFrom(sorted, x, k) ==
    IF k = 0 \/ Compare(sorted[k], x) <= 0
    THEN SubSeq(sorted, 1, k) \o <<x>> \o SubSeq(sorted, k + 1, Len(sorted))
    ELSE InsertFrom(sorted, x, k - 1)

Insert(sorted, x) == InsertFrom(sorted, x, Len(sorted))

RECURSIVE SortBackups(_)
SortBackups(list) ==
    IF Len(list) = 0 THEN << >>
    ELSE Insert(SortBackups(SubSeq(list, 1, Len(list) - 1)), list[Len(list)])

\* a listing that keeps only the directories whose names hold a timestamp
ListBackupsMatchedOnly(f, d, order, times) ==
    LET RECURSIVE Collect(_)
        Collect(i) ==
            IF i = 0 THEN << >>
            ELSE Collect(i - 1) \o
                 (IF IsDir(f, d \o <<order[i]>>) /\ TimestampMatch(order[i]) # ""
                  THEN <<BackupRecord(d, order[i], times[i])>>
                  ELSE << >>)
    IN  SortBackups(Collect(Len(order)))

\* listBackups(handle) when values() yields the entries in `order`, the i-th at
\* time times[i]
ListBackups(f, d, order, times) ==
    LET RECURSIVE Collect(_)
        Collect(i) ==
            IF i = 0 THEN << >>
            ELSE Collect(i - 1) \o
                 (IF IsDir(f, d \o <<order[i]>>)
                  THEN <<BackupRecord(d, order[i], times[i])>>
                  ELSE << >>)
    IN  SortBackups(Collect(Len(order)))

----------------------------------------------------------------------------
(* The permission gate: verifyPermission *)

\* no handle: the null of sourcePath / backupPath ("<" is in no entry name)
Null == <<"<null>">>

ModeOf(readWrite) == IF readWrite THEN "readwrite" ELSE "read"

\* queryPermission(options) === 'granted': a grant covers the directories below
\* it, and a read-write grant covers reading
Standing(g, handle, mode) ==
    \E e \in g : IsPrefix(e[1], handle) /\ (e[2] = mode \/ e[2] = "readwrite")

\* handle.queryPermission(options)
QueryPermission(g, handle, mode) == IF Standing(g, handle, mode) THEN "granted" ELSE "prompt"

\* handle.requestPermission(options), the user answering the prompt with `answer`:
\* the state returned and the standing permissions left
RequestPermission(g, handle, mode, answer) ==
    [state |-> answer,
     granted |-> IF answer = "granted" THEN g \cup {<<handle, mode>>} ELSE g]

\* a check that asks the user without looking at the standing permission
VerifyPermissionAlwaysAsking(g, handle, readWrite, answer) ==
    LET asked == RequestPermission(g, handle, ModeOf(readWrite), answer)
    IN  [ok |-> asked.state = "granted", granted |-> asked.granted, requests |-> 1]

\* lines 69-85, the user answering the prompt of requestPermission with `answer`:
\* the value returned, the standing permissions left and the requests issued
VerifyPermission(g, handle, readWrite, answer) ==
    IF QueryPermission(g, handle, ModeOf(readWrite)) = "granted"
    THEN [ok |-> TRUE, granted |-> g, requests |-> 0]
    ELSE LET asked == RequestPermission(g, handle, ModeOf(readWrite), answer)
         IN  IF asked.state = "granted"
             THEN [ok |-> TRUE, granted |-> asked.granted, requests |-> 1]
             ELSE [ok |-> FALSE, granted |-> asked.granted, requests |-> 1]

Answers == {"granted", "denied"}

----------------------------------------------------------------------------
(* The name of a new backup folder *)

Digit(n) == Char(Digits, (n % 10) + 1)
Pad2(n) == Digit(n \div 10) \o Digit(n)
Pad3(n) == Digit(n \div 100) \o Pad2(n)
Pad4(n) == Digit(n \div 1000) \o Pad3(n)

\* Date.prototype.toISOString: YYYY-MM-DDTHH:mm:ss.sssZ, in UTC
ToISOString(t) ==
    LET date == CivilFromDays(t[1])
        ms == t[2]
    IN  Pad4(date[1]) \o "-" \o Pad2(date[2]) \o "-" \o Pad2(date[3]) \o "T"
        \o Pad2(ms \div 3600000) \o ":" \o Pad2((ms \div 60000) % 60) \o ":"
        \o Pad2((ms \div 1000) % 60) \o "." \o Pad3(ms % 1000) \o "Z"

\* .replace(/[:T]/g, '_')
RECURSIVE ReplaceColonT(_)
ReplaceColonT(s) ==
    IF Len(s) = 0 THEN ""
    ELSE (IF Char(s, 1) \in {":", "T"} THEN "_" ELSE Char(s, 1))
         \o ReplaceColonT(SubSeq(s, 2, Len(s)))

\* .split('.')[0]
RECURSIVE BeforeDot(_)
BeforeDot(s) ==
    IF Len(s) = 0 \/ Char(s, 1) = "." THEN ""
    ELSE Char(s, 1) \o BeforeDot(SubSeq(s, 2, Len(s)))

\* String.prototype.trim
RECURSIVE Trim(_)
Trim(s) ==
    IF Len(s) = 0 THEN ""
    ELSE IF Char(s, 1) = " " THEN Trim(SubSeq(s, 2, Len(s)))
    ELSE IF Char(s, Len(s)) = " " THEN Trim(SubSeq(s, 1, Len(s) - 1))
    ELSE s

\* a name that keeps the label as typed, its surrounding spaces included
FolderNameVerbatim(label, clock) ==
    LET timestamp == BeforeDot(ReplaceColonT(ToISOString(clock)))
    IN  IF Trim(label) # "" THEN label ELSE "Backup_" \o timestamp

\* lines 104-106
FolderName(label, clock) ==
    LET timestamp == BeforeDot(ReplaceColonT(ToISOString(clock)))
    IN  IF Trim(label) # "" THEN Trim(label) ELSE "Backup_" \o timestamp

----------------------------------------------------------------------------
(* SpecEngine: the engines on every disk of the bounds and every pair of handles *)

\* the App as useState constructs it (lines 23-33), nothing persisted
InitialState == [sourcePath |-> Null, backupPath |-> Null, backups |-> << >>,
                 isLoading |-> FALSE, statusMessage |-> "Ready"]

NoWorkflow == [pc |-> "idle", op |-> "none", src |-> Null, vault |-> Null,
               backups |-> << >>, selected |-> "", label |-> "", srcOk |-> "?",
               vaultOk |-> "?", folder |-> Null, listed |-> "?"]

NoApp ==
    /\ state = InitialState
    /\ customBackupName = ""
    /\ selectedBackup = ""
    /\ db = [sourcePath |-> Null, backupPath |-> Null]
    /\ granted = {}
    /\ wf = NoWorkflow
    /\ refresh = EmptyBag
    /\ boot = FALSE
    /\ ops = 0

NoListing == [calls |-> 0, dir |-> Root, order |-> << >>, times |-> << >>,
              result |-> << >>]

\* 2024-06-01 16:00:00.000 UTC, noon in the host's zone
Noon == <<DaysFromCivil(2024, 6, 1), 16 * 60 * 60 * 1000>>

InitEngine ==
    /\ fs \in InitialDisks
    /\ eng = NoEngine
    /\ hist = << >>
    /\ now = Noon
    /\ listed = NoListing
    /\ NoApp

CallCopy ==
    /\ eng.st # "run"
    /\ Len(hist) < MaxRuns
    /\ \E s \in Dirs(fs), t \in Dirs(fs) : EngineCall("copy", s, t)
    /\ UNCHANGED <<fs, hist, now, listed, appVars>>

CallClear ==
    /\ eng.st # "run"
    /\ Len(hist) < MaxRuns
    /\ \E d \in Dirs(fs) : EngineCall("clear", d, d)
    /\ UNCHANGED <<fs, hist, now, listed, appVars>>

NextEngine == CallCopy \/ CallClear \/ (EngineStep /\ UNCHANGED <<now, listed, appVars>>)

SpecEngine == InitEngine /\ [][NextEngine]_vars

(* What the engines guarantee, over the calls that have ended (hist) *)

Calls(op, st) == {i \in DOMAIN hist : hist[i].op = op /\ hist[i].st = st}

\* the source tree a call started from
Src(h) == Subtree(h.before, h.src)

\* C4: after copyDirectory(T, T') of two separate trees has completed without
\* failure, for any nesting depth and any enumeration order, every file and every
\* subdirectory of T is in T' at the same relative path, a file with the same
\* content; and when T' started empty, T' equals T as a set of (path, content).
C4_CopyIsFaithful ==
    \A i \in Calls("copy", "ok") :
        LET h == hist[i]
        IN  Disjoint(h.src, h.tgt) =>
                /\ \A r \in DOMAIN Src(h) :
                        Exists(h.after, h.tgt \o r) /\ h.after[h.tgt \o r] = Src(h)[r]
                /\ ChildNames(h.before, h.tgt) = {} => Subtree(h.after, h.tgt) = Src(h)

\* a completed copy of a tree with a file two levels down into an empty directory
C4_Witness ==
    \E i \in Calls("copy", "ok") :
        LET h == hist[i]
        IN  /\ Disjoint(h.src, h.tgt)
            /\ ChildNames(h.before, h.tgt) = {}
            /\ \E r \in DOMAIN Src(h) : Len(r) = 2 /\ Src(h)[r] # Dir
            /\ Subtree(h.after, h.tgt) = Src(h)

\* C5: after clearDirectory(D) has completed without failure, whatever D held,
\* nested subtrees included, D still exists and has no children.
C5_ClearEmpties ==
    \A i \in Calls("clear", "ok") :
        /\ IsDir(hist[i].after, hist[i].src)
        /\ ChildNames(hist[i].after, hist[i].src) = {}

\* a completed clear of a directory that held a nested subtree
C5_Witness ==
    \E i \in Calls("clear", "ok") :
        /\ \E r \in DOMAIN Src(hist[i]) : Len(r) = 2
        /\ IsDir(hist[i].after, hist[i].src)
        /\ ChildNames(hist[i].after, hist[i].src) = {}

\* calls i and i + 1 are copyDirectory(source, target) run twice in a row, both
\* completing, the source unchanged in between
Twice(i) ==
    /\ i \in Calls("copy", "ok") /\ i + 1 \in Calls("copy", "ok")
    /\ hist[i + 1].src = hist[i].src /\ hist[i + 1].tgt = hist[i].tgt
    /\ Src(hist[i + 1]) = Src(hist[i])

\* C6: copyDirectory is idempotent: with the source unchanged, running
\* copyDirectory(source, target) twice in a row leaves the disk, and so the target
\* tree, as it was after the first run.
C6_CopyIdempotent ==
    \A i \in DOMAIN hist : Twice(i) => hist[i + 1].after = hist[i].after

\* two runs in a row, the first of which overwrote a file of the target
C6_Witness ==
    \E i \in DOMAIN hist :
        /\ Twice(i)
        /\ \E r \in DOMAIN Src(hist[i]) :
              /\ Src(hist[i])[r] # Dir
              /\ IsFile(hist[i].before, hist[i].tgt \o r)
              /\ hist[i].before[hist[i].tgt \o r] # Src(hist[i])[r]

\* C7: copyDirectory(source, target) is a merge.  At every moment of a copy, and
\* after it: no entry the disk held at the start is gone; every entry of the
\* target at a path the source does not have is as it was; and the source, when
\* separate from the target, is as it was.
C7_CopyMerges ==
    eng.op = "copy" =>
        /\ \A p \in DOMAIN eng.before : Exists(fs, p)
        /\ \A r \in DOMAIN Subtree(eng.before, eng.tgt) \ DOMAIN Subtree(fs, eng.src) :
                fs[eng.tgt \o r] = eng.before[eng.tgt \o r]
        /\ Disjoint(eng.src, eng.tgt) =>
                Subtree(fs, eng.src) = Subtree(eng.before, eng.src)

\* a completed copy that entered a directory of the target holding a file the
\* source does not have
C7_Witness ==
    /\ eng.op = "copy" /\ eng.st = "ok"
    /\ Disjoint(eng.src, eng.tgt)
    /\ \E r \in DOMAIN Subtree(eng.before, eng.tgt) \ DOMAIN Subtree(eng.before, eng.src) :
          /\ Len(r) = 2
          /\ IsDir(eng.before, eng.src \o <<r[1]>>)
          /\ IsFile(fs, eng.tgt \o r)
          /\ fs[eng.tgt \o r] = eng.before[eng.tgt \o r]

----------------------------------------------------------------------------
(* SpecCatalog: listBackups on every vault of the bounds, in every enumeration *)
(* order, as the clock advances                                               *)

CatalogNames ==
    { "Backup_2024-01-01_10-00-00", "Backup_2023-12-31_23-59-59", "random_folder",
      "Backup_2024-01-31_00-00-00", "Backup_2024-02-01_00-00-00",
      "Backup_2024-01-99_00-00-00",
      "0099-12-31_00-00-00", "Old_0100-01-01_00-00-00",
      "2024-03-10_02-30-00", "2024-03-10_03-00-00",
      "Backup_2030-01-01_00-00-00", "Backup_2024-06-01_12-00-00",
      "Backup_2024-06-01_16_00_00", "pre 2024-05-01_08-00-00 v2" }

\* the vaults: the root directory with at most MaxVault entries, directories but
\* for at most one file
RECURSIVE VaultsOf(_)
VaultsOf(k) ==
    IF k = 0 THEN {[p \in {Root} |-> Dir]}
    ELSE LET smaller == VaultsOf(k - 1)
         IN  smaller \cup {Put(f, <<n>>, Dir) : f \in smaller, n \in CatalogNames}

\* a vault of one folder and one file, the folder holding a folder of its own
NestedVaults ==
    {Put(Put(x[1], <<"notes.txt">>, "x"), <<x[2], "Backup_2020-01-01_00-00-00">>, Dir) :
        x \in {y \in VaultsOf(1) \X CatalogNames : IsDir(y[1], <<y[2]>>)}}

Vaults ==
    VaultsOf(MaxVault) \cup {Put(f, <<"notes.txt">>, "x") : f \in VaultsOf(MaxVault - 1)}
        \cup NestedVaults

\* the orders in which values() may yield the names of set S
RECURSIVE Orders(_)
Orders(S) ==
    IF S = {} THEN {<< >>}
    ELSE UNION {{<<n>> \o o : o \in Orders(S \ {n})} : n \in S}

\* the clock readings of a loop of n turns that starts at time t
Readings(t, n) ==
    {[i \in 1..n |-> AddMs(t, off[i])] :
        off \in {o \in [1..n -> 0..MaxTicks] : \A i \in 1..n : \A j \in i..n : o[i] <= o[j]}}

InitCatalog ==
    /\ fs \in Vaults
    /\ eng = NoEngine
    /\ hist = << >>
    /\ now = Noon
    /\ listed = NoListing
    /\ NoApp

CallList ==
    /\ listed.calls = 0
    /\ \E order \in Orders(ChildNames(fs, Root)) :
       \E times \in Readings(now, Len(order)) :
        /\ listed' = [calls |-> listed.calls + 1, dir |-> Root, order |-> order,
                      times |-> times, result |-> ListBackups(fs, Root, order, times)]
        /\ now' = IF order = << >> THEN now ELSE times[Len(order)]
    /\ UNCHANGED <<fs, eng, hist, appVars>>

\* time passes before the listing
Tick ==
    /\ listed.calls = 0
    /\ Earlier(now, AddMs(Noon, MaxTicks))
    /\ now' = AddMs(now, 1)
    /\ UNCHANGED <<fs, eng, hist, listed, appVars>>

NextCatalog == CallList \/ Tick

SpecCatalog == InitCatalog /\ [][NextCatalog]_vars

(* What the catalog guarantees, over the listing that was made (listed) *)

Listed == listed.calls > 0

Res == listed.result

\* the turn of the enumeration that yielded `name`
Index(order, name) == CHOOSE k \in DOMAIN order : order[k] = name

\* C8: the sequence listBackups returns is ordered by non-increasing timestamp,
\* and two records of equal timestamps are in the order the enumeration of the
\* vault yielded them.
C8_NewestFirstStable ==
    Listed =>
        \A i \in DOMAIN Res : \A j \in DOMAIN Res :
            i < j =>
                /\ ~Earlier(Res[i].timestamp, Res[j].timestamp)
                /\ Res[i].timestamp = Res[j].timestamp =>
                       Index(listed.order, Res[i].name) < Index(listed.order, Res[j].name)

\* a listing of three folders, two of equal timestamps and one older, that the
\* enumeration yielded oldest first
C8_Witness ==
    /\ Listed /\ Len(Res) = 3
    /\ Res[1].timestamp = Res[2].timestamp
    /\ Earlier(Res[3].timestamp, Res[2].timestamp)
    /\ Index(listed.order, Res[3].name) < Index(listed.order, Res[1].name)

\* C11: listBackups returns exactly one record for every immediate subdirectory
\* of the vault, whatever its name, the record's name being the subdirectory's
\* and its handle referring to it; it returns no record for a file or for a
\* directory further down, and so nothing when the vault has no subdirectory.
C11_OneRecordPerFolder ==
    Listed =>
        /\ \A n \in ChildNames(fs, listed.dir) :
                IsDir(fs, listed.dir \o <<n>>) =>
                    Cardinality({i \in DOMAIN Res : Res[i].name = n}) = 1
        /\ \A i \in DOMAIN Res :
                /\ Res[i].handle = listed.dir \o <<Res[i].name>>
                /\ IsDir(fs, Res[i].handle)

\* a listing of a vault that holds a file and one folder of a name without a
\* timestamp, with a folder inside it: the one folder is returned
C11_Witness ==
    /\ Listed /\ Len(Res) = 1
    /\ TimestampMatch(Res[1].name) = ""
    /\ \E n \in ChildNames(fs, listed.dir) : IsFile(fs, listed.dir \o <<n>>)
    /\ \E n \in ChildNames(fs, Res[1].handle) : IsDir(fs, Res[1].handle \o <<n>>)

\* a listing of a vault without subdirectories returns nothing
C11_WitnessEmpty == Listed /\ Res = << >> /\ ChildNames(fs, listed.dir) # {}

Matched(name) == TimestampMatch(name) # ""

\* the (year, month, day, hour, minute, second) written in a matched name
Fields(name) ==
    LET parts == Split(TimestampMatch(name)) IN [i \in 1..6 |-> ParseInt(parts[i])]

\* a is later than b, field by field from field i on
RECURSIVE LexLater(_, _, _)
LexLater(a, b, i) ==
    IF i > 6 THEN FALSE ELSE a[i] > b[i] \/ (a[i] = b[i] /\ LexLater(a, b, i + 1))

DaysInMonth(y, m) ==
    DaysFromCivil(IF m = 12 THEN y + 1 ELSE y, IF m = 12 THEN 1 ELSE m + 1, 1)
        - DaysFromCivil(y, m, 1)

\* the fields as a time of the wall clock
WallTime(f) ==
    <<DaysFromCivil(f[1], f[2], f[3]), f[4] * 3600000 + f[5] * 60000 + f[6] * 1000>>

\* a wall-clock time that the start of daylight saving time skips
Skipped(f) ==
    /\ ~Earlier(WallTime(f), AddMs(DstFirstLocal, 0 - 3600000))
    /\ Earlier(WallTime(f), DstFirstLocal)

\* the fields are a date and time of the calendar, of a year Date takes as
\* written (100 and up), that the local wall clock shows
Valid(f) ==
    /\ f[1] >= 100
    /\ f[2] \in 1..12
    /\ f[3] >= 1 /\ f[3] <= DaysInMonth(f[1], f[2])
    /\ f[4] <= 23 /\ f[5] <= 59 /\ f[6] <= 59
    /\ ~Skipped(f)

\* C9 as stated: of any two subdirectories whose names contain a
\* YYYY-MM-DD_HH-mm-ss substring, listBackups places the one whose embedded
\* (year, month, day, hour, minute, second) is later before the other.
C9_AsStated ==
    Listed =>
        \A i \in DOMAIN Res : \A j \in DOMAIN Res :
            /\ Matched(Res[i].name) /\ Matched(Res[j].name)
            /\ LexLater(Fields(Res[i].name), Fields(Res[j].name), 1)
            => i < j

\* C9 (amended): of any two subdirectories whose names contain a
\* YYYY-MM-DD_HH-mm-ss substring that is a valid calendar date and time of a year
\* from 0100 on, one the local wall clock shows (not skipped by the start of
\* daylight saving time), listBackups places the one whose embedded (year, month,
\* day, hour, minute, second) is later before the other, the month read as
\* 1-indexed.
C9_LaterNameFirst ==
    Listed =>
        \A i \in DOMAIN Res : \A j \in DOMAIN Res :
            /\ Matched(Res[i].name) /\ Matched(Res[j].name)
            /\ Valid(Fields(Res[i].name)) /\ Valid(Fields(Res[j].name))
            /\ LexLater(Fields(Res[i].name), Fields(Res[j].name), 1)
            => i < j

\* a listing that put a folder of the first of a month before the folder of the
\* last day of the month before, which the enumeration had yielded first
C9_Witness ==
    /\ Listed
    /\ \E i \in DOMAIN Res : \E j \in DOMAIN Res :
        /\ i < j
        /\ Matched(Res[i].name) /\ Matched(Res[j].name)
        /\ Valid(Fields(Res[i].name)) /\ Valid(Fields(Res[j].name))
        /\ LexLater(Fields(Res[i].name), Fields(Res[j].name), 1)
        /\ Fields(Res[i].name)[2] > Fields(Res[j].name)[2]
        /\ Fields(Res[i].name)[3] < Fields(Res[j].name)[3]
        /\ Index(listed.order, Res[j].name) < Index(listed.order, Res[i].name)

\* the subdirectories of the vault whose names do not match, by turn of enumeration
Unmatched ==
    {k \in DOMAIN listed.order :
        IsDir(fs, listed.dir \o <<listed.order[k]>>) /\ ~Matched(listed.order[k])}

\* C10 as stated: a subdirectory whose name does not match is returned, with the
\* time of the listing as its timestamp, before every subdirectory whose name
\* matches.
C10_AsStated ==
    Listed =>
        \A k \in Unmatched :
            \E i \in DOMAIN Res :
                /\ Res[i].name = listed.order[k]
                /\ Res[i].timestamp = listed.times[k]
                /\ \A j \in DOMAIN Res : Matched(Res[j].name) => i < j

\* C10 (amended): a subdirectory whose name does not match is returned, with the
\* time at which the listing reached it as its timestamp, before every
\* subdirectory whose name matches and gives a time earlier than that.
C10_FallbackIsNow ==
    Listed =>
        \A k \in Unmatched :
            \E i \in DOMAIN Res :
                /\ Res[i].name = listed.order[k]
                /\ Res[i].timestamp = listed.times[k]
                /\ \A j \in DOMAIN Res :
                       Matched(Res[j].name) /\ Earlier(Res[j].timestamp, listed.times[k])
                       => i < j

\* a listing with an unmatched folder put before a matched one of an earlier
\* time that the enumeration had yielded first
C10_Witness ==
    /\ Listed
    /\ \E k \in Unmatched : \E i \in DOMAIN Res : \E j \in DOMAIN Res :
        /\ Res[i].name = listed.order[k]
        /\ Res[i].timestamp = listed.times[k]
        /\ Matched(Res[j].name) /\ Earlier(Res[j].timestamp, listed.times[k])
        /\ i < j
        /\ Index(listed.order, Res[j].name) < k

----------------------------------------------------------------------------
(* SpecGate: verifyPermission called on any handle, in either mode, whatever   *)
(* permissions stand, the user answering a prompt by granting, denying or      *)
(* dismissing it.                                                              *)

GateHandles == {Root, <<"a">>, <<"a", "b">>, <<"b">>}

GateAnswers == Answers \cup {"prompt"}

InitGate ==
    /\ fs = [p \in GateHandles |-> Dir]
    /\ eng = NoEngine
    /\ hist = << >>
    /\ now = Noon
    /\ listed = NoListing
    /\ state = InitialState
    /\ customBackupName = ""
    /\ selectedBackup = ""
    /\ db = [sourcePath |-> Null, backupPath |-> Null]
    /\ granted \in SUBSET ({Root, <<"a">>} \X {"read", "readwrite"})
    /\ wf = NoWorkflow
    /\ refresh = EmptyBag
    /\ boot = FALSE
    /\ ops = 0

CallVerify ==
    /\ Len(hist) < MaxRuns
    /\ \E handle \in GateHandles, readWrite \in BOOLEAN, answer \in GateAnswers :
        LET returned == VerifyPermission(granted, handle, readWrite, answer)
        IN  /\ granted' = returned.granted
            /\ hist' = Append(hist, [op |-> "verify", handle |-> handle,
                                     mode |-> ModeOf(readWrite), answer |-> answer,
                                     before |-> granted, ok |-> returned.ok,
                                     requests |-> returned.requests])
    /\ UNCHANGED <<fs, eng, now, listed, state, customBackupName, selectedBackup, db,
                   wf, refresh, boot, ops>>

NextGate == CallVerify

SpecGate == InitGate /\ [][NextGate]_vars

\* C12: verifyPermission returns true without issuing an elevation request when
\* the permission for the requested mode stands; otherwise it issues exactly one
\* request and returns true when that is granted and false when it is denied or
\* dismissed.
C12_AsksOnlyWhenNeeded ==
    \A i \in DOMAIN hist :
        LET c == hist[i]
        IN  IF Standing(c.before, c.handle, c.mode)
            THEN c.ok /\ c.requests = 0
            ELSE c.requests = 1 /\ c.ok = (c.answer = "granted")

\* a call that returned true without asking, for a folder below one whose
\* permission stands, after a call that asked once and was dismissed
C12_Witness ==
    /\ Len(hist) = 2
    /\ hist[1].requests = 1 /\ hist[1].answer = "prompt" /\ ~hist[1].ok
    /\ hist[2].requests = 0 /\ hist[2].ok /\ hist[2].handle = <<"a", "b">>

----------------------------------------------------------------------------
(* Spec: the App.  The user picks folders, types a label, chooses a backup,  *)
(* starts backups and restores and answers the permission prompts; the       *)
(* engines and the refreshes run between the user's actions.                 *)

Labels == {"", "a", " b "}

\* The disks Spec starts from: a game folder "a" holding at most one save file
\* (its content "x"), and a vault "b" holding at most one entry, a file or a
\* folder of any name, the folder holding at most one file of either content.
GameFolder == <<"a">>
VaultFolder == <<"b">>

BareDisk == Put(Put(Root :> Dir, GameFolder, Dir), VaultFolder, Dir)

WithSave(F) ==
    F \cup {Put(f, GameFolder \o <<n>>, "x") : f \in F, n \in Names}

WithEntry(F) ==
    F \cup {Put(f, VaultFolder \o <<n>>, v) :
                f \in F, n \in Names, v \in {"x", Dir}}

WithStale(F) ==
    F \cup {Put(x[1], VaultFolder \o <<x[2], m>>, c) :
                x \in {y \in F \X Names : IsDir(y[1], VaultFolder \o <<y[2]>>)},
                m \in Names, c \in Contents}

AppDisks == WithStale(WithEntry(WithSave({BareDisk})))

\* what IndexedDB holds at start: nothing (a first run) or both folders (a later run)
StoredHandles ==
    {[sourcePath |-> Null, backupPath |-> Null],
     [sourcePath |-> GameFolder, backupPath |-> VaultFolder]}

Init ==
    /\ fs \in AppDisks
    /\ eng = NoEngine
    /\ hist = << >>
    /\ now = Noon
    /\ listed = NoListing
    /\ state = InitialState
    /\ customBackupName = ""
    /\ selectedBackup = ""
    /\ db \in StoredHandles
    /\ granted = {}
    /\ wf = NoWorkflow
    /\ refresh = EmptyBag
    /\ boot = TRUE
    /\ ops = 0

\* refreshBackups(bkpHandle) is called: it runs when its permission check settles
Spawn(bag, handle) == bag (+) SetToBag({handle})

\* lines 53-70: init loads the persisted handles and refreshes the catalog
Boot ==
    /\ boot
    /\ boot' = FALSE
    /\ state' = [state EXCEPT !.sourcePath = db.sourcePath, !.backupPath = db.backupPath]
    /\ refresh' = IF db.backupPath # Null THEN Spawn(refresh, db.backupPath) ELSE refresh
    /\ UNCHANGED <<fs, eng, hist, now, listed, customBackupName, selectedBackup, db,
                   granted, wf, ops>>

\* what showDirectoryPicker() settles with: a folder the user chose, or a
\* rejection, AbortError when the user dismissed the picker
Pickers == {"chosen", "AbortError", "SecurityError"}

SecurityMessage == "Must be handling a user gesture to show a file picker."

\* a catch block without the AbortError test
CaughtAll(name, message) == [state EXCEPT !.statusMessage = "Error: " \o message]

\* lines 86-89: the catch block of pickDirectory
Caught(name, message) ==
    IF name = "AbortError" THEN state
    ELSE [state EXCEPT !.statusMessage = "Error: " \o message]

\* lines 74-89, what pickDirectory does to the App: the picker settles with
\* `picker`, the user having chosen folder `handle` (which grants reading it),
\* and the handle is saved
PickOutcome(type, picker, handle) ==
    IF picker # "chosen"
    THEN /\ state' = Caught(picker, IF picker = "AbortError" THEN "The user aborted a request."
                                                             ELSE SecurityMessage)
         /\ UNCHANGED <<db, granted, refresh>>
    ELSE /\ granted' = granted \cup {<<handle, "read">>}
         /\ IF type = "SOURCE"
            THEN /\ db' = [db EXCEPT !.sourcePath = handle]
                 /\ state' = [state EXCEPT !.sourcePath = handle,
                                           !.statusMessage = "Save path linked."]
                 /\ refresh' = refresh
            ELSE /\ db' = [db EXCEPT !.backupPath = handle]
                 /\ state' = [state EXCEPT !.backupPath = handle,
                                           !.statusMessage = "Vault path linked."]
                 /\ refresh' = Spawn(refresh, handle)

\* lines 74-90 (a dismissed picker is not counted as something the user did)
PickDirectory(type, picker, handle) ==
    /\ ~boot
    /\ ops < MaxOps
    /\ ops' = IF picker = "AbortError" THEN ops ELSE ops + 1
    /\ PickOutcome(type, picker, handle)
    /\ UNCHANGED <<fs, eng, hist, now, listed, customBackupName, selectedBackup, wf,
                   boot>>

Pick ==
    \E type \in {"SOURCE", "BACKUP"}, picker \in Pickers, handle \in Dirs(fs) :
        PickDirectory(type, picker, handle)

\* what values() of the vault does to a listing: it yields the entries, or it
\* rejects (the folder is gone, the drive was unplugged)
Enumerations == {"yields", "rejects"}

\* lines 36-47, the body of refreshBackups: the user answers its prompt with
\* `answer` and values() yields the vault's entries in some order; a denial skips
\* the listing (line 38) and a rejection is caught and logged (lines 45-47).
\* `outcome` is what became of it: "listed", "denied" or "caught".
RefreshBody(bkpHandle, answer, enumeration, outcome) ==
    LET hasPerm == VerifyPermission(granted, bkpHandle, FALSE, answer)
    IN  /\ granted' = hasPerm.granted
        /\ IF ~hasPerm.ok
           THEN outcome = "denied" /\ UNCHANGED <<listed, state, selectedBackup>>
           ELSE IF enumeration = "rejects" \/ ~IsDir(fs, bkpHandle)
           THEN outcome = "caught" /\ UNCHANGED <<listed, state, selectedBackup>>
           ELSE /\ outcome = "listed"
                /\ \E order \in Orders(ChildNames(fs, bkpHandle)) :
                    LET times == [i \in 1..Len(order) |-> now]
                        list == ListBackups(fs, bkpHandle, order, times)
                    IN  /\ listed' = [calls |-> 1, dir |-> bkpHandle, order |-> order,
                                      times |-> times, result |-> list]
                        /\ state' = [state EXCEPT !.backups = list]
                        /\ selectedBackup' = IF Len(list) > 0 THEN list[1].name
                                             ELSE selectedBackup

Outcomes == {"listed", "denied", "caught"}

\* lines 35-48: one refreshBackups call of init or pickDirectory runs; its
\* values() rejects only when the folder is no longer on the disk
RefreshBackups(bkpHandle, answer) ==
    /\ BagIn(bkpHandle, refresh)
    /\ refresh' = refresh (-) SetToBag({bkpHandle})
    /\ \E outcome \in Outcomes : RefreshBody(bkpHandle, answer, "yields", outcome)
    /\ UNCHANGED <<fs, eng, hist, now, customBackupName, db, wf, boot, ops>>

Refresh == \E h \in BagToSet(refresh), answer \in Answers : RefreshBackups(h, answer)

\* the button of lines 209-211 can be clicked (the user acts once the list of
\* init or pickDirectory has loaded)
CanBackup ==
    refresh = EmptyBag /\ state.sourcePath # Null /\ state.backupPath # Null /\ ~state.isLoading

\* the refreshBackups call that handleBackup awaits at line 113 goes on when the
\* next workflow starts before it has settled
Overtaken(bag) == IF wf.pc = "b4" THEN Spawn(bag, wf.vault) ELSE bag

\* the button of lines 239-241 can be clicked
CanRestore == CanBackup /\ selectedBackup # ""

\* line 206: the user types a label (when a backup can follow: nothing else reads it)
TypeLabel ==
    /\ CanBackup /\ wf.pc = "idle" /\ ops < MaxOps
    /\ \E label \in Labels \ {customBackupName} : customBackupName' = label
    /\ UNCHANGED <<fs, eng, hist, now, listed, state, selectedBackup, db, granted, wf,
                   refresh, boot, ops>>

\* lines 226-238: the user chooses one of the listed backups (when a restore can
\* follow: nothing else reads the choice)
SelectBackup ==
    /\ CanBackup /\ wf.pc = "idle" /\ ops < MaxOps
    /\ \E i \in DOMAIN state.backups :
        /\ state.backups[i].name # selectedBackup
        /\ selectedBackup' = state.backups[i].name
    /\ UNCHANGED <<fs, eng, hist, now, listed, state, customBackupName, db, granted, wf,
                   refresh, boot, ops>>

\* the catch blocks of lines 114-116 and 143-145
Failed(locals, what, message) ==
    /\ state' = [state EXCEPT !.isLoading = FALSE,
                              !.statusMessage = what \o " failed: " \o message]
    /\ wf' = [locals EXCEPT !.pc = "idle"]

\* an await that goes on to the next line whether the engine resolved or rejected
ResolvedOrRejected(e) == e.st \in {"ok", "err"}

\* `await engine(...)` goes on to the next line: the engine's promise resolved
Resolved(e) == e.st = "ok"

Answered(ok) == IF ok THEN "yes" ELSE "no"

\* a test that stops the workflow only when both permissions are missing
PermissionsBothMissing(hasSourcePerm, hasBackupPerm) == ~hasSourcePerm /\ ~hasBackupPerm

\* lines 100 and 132: if (!hasSourcePerm || !hasBackupPerm)
PermissionsMissing(hasSourcePerm, hasBackupPerm) == ~hasSourcePerm \/ ~hasBackupPerm

\* lines 92-95 with the button's guard of line 211
BackupClick ==
    /\ CanBackup
    /\ ops < MaxOps
    /\ ops' = ops + 1
    /\ state' = [state EXCEPT !.isLoading = TRUE, !.statusMessage = "Creating backup..."]
    /\ wf' = [NoWorkflow EXCEPT !.pc = "b1", !.op = "backup", !.src = state.sourcePath,
                                !.vault = state.backupPath, !.label = customBackupName]
    /\ refresh' = Overtaken(refresh)
    /\ UNCHANGED <<fs, eng, hist, now, listed, customBackupName, selectedBackup, db,
                   granted, boot>>

\* line 97
BackupVerifySource ==
    /\ wf.pc = "b1"
    /\ \E answer \in Answers :
        LET hasSourcePerm == VerifyPermission(granted, wf.src, FALSE, answer)
        IN  /\ granted' = hasSourcePerm.granted
            /\ wf' = [wf EXCEPT !.pc = "b2",
                                !.srcOk = Answered(hasSourcePerm.ok)]
    /\ UNCHANGED <<fs, eng, hist, now, listed, state, customBackupName, selectedBackup,
                   db, refresh, boot, ops>>

\* lines 98-109: the vault's permission, the folder's name, the folder, and the
\* call of copyDirectory
BackupVerifyVault ==
    /\ wf.pc = "b2"
    /\ \E answer \in Answers :
        LET hasBackupPerm == VerifyPermission(granted, wf.vault, TRUE, answer)
            folderName == FolderName(wf.label, now)
            newBackupFolder == wf.vault \o <<folderName>>
            locals == [wf EXCEPT !.vaultOk = Answered(hasBackupPerm.ok)]
        IN  /\ granted' = hasBackupPerm.granted
            /\ IF PermissionsMissing(wf.srcOk = "yes", hasBackupPerm.ok)
               THEN /\ Failed(locals, "Backup", "Permissions not granted by user.")
                    /\ UNCHANGED <<fs, eng>>
               ELSE IF ~IsDir(fs, wf.vault) \/ IsFile(fs, newBackupFolder)
               THEN /\ Failed(locals, "Backup", IF IsFile(fs, newBackupFolder)
                                                THEN TypeMismatchError ELSE NotFoundError)
                    /\ UNCHANGED <<fs, eng>>
               ELSE /\ Len(newBackupFolder) <= MaxPathLen
                    /\ fs' = MakeDir(fs, newBackupFolder)
                    /\ EngineCallOn(fs', "copy", wf.src, newBackupFolder)
                    /\ wf' = [locals EXCEPT !.pc = "b3", !.folder = newBackupFolder]
                    /\ state' = state
    /\ UNCHANGED <<hist, now, listed, customBackupName, selectedBackup, db, refresh,
                   boot, ops>>

\* a handleBackup that returns after line 112, without line 113
BackupFinishWithoutRefresh ==
    /\ wf.pc = "b3"
    /\ eng.st \in {"ok", "err"}
    /\ IF Resolved(eng)
       THEN /\ state' = [state EXCEPT
                           !.statusMessage = "Success: Backup '"
                               \o wf.folder[Len(wf.folder)] \o "' created.",
                           !.isLoading = FALSE]
            /\ wf' = [wf EXCEPT !.pc = "idle"]
            /\ customBackupName' = ""
       ELSE /\ Failed(wf, "Backup", eng.msg)
            /\ UNCHANGED customBackupName
    /\ UNCHANGED <<fs, eng, hist, now, listed, selectedBackup, db, granted, refresh,
                   boot, ops>>

\* lines 111-112, or the catch of line 115, once copyDirectory has settled
BackupFinish ==
    /\ wf.pc = "b3"
    /\ eng.st \in {"ok", "err"}
    /\ IF Resolved(eng)
       THEN /\ state' = [state EXCEPT
                           !.statusMessage = "Success: Backup '"
                               \o wf.folder[Len(wf.folder)] \o "' created.",
                           !.isLoading = FALSE]
            /\ wf' = [wf EXCEPT !.pc = "b4"]
            /\ customBackupName' = ""
       ELSE /\ Failed(wf, "Backup", eng.msg)
            /\ UNCHANGED customBackupName
    /\ UNCHANGED <<fs, eng, hist, now, listed, selectedBackup, db, granted, refresh,
                   boot, ops>>

\* line 113: the refreshBackups call handleBackup awaits; it never throws, so
\* handleBackup returns after it whatever became of it
BackupRefresh ==
    /\ wf.pc = "b4"
    /\ \E answer \in Answers, enumeration \in Enumerations, outcome \in Outcomes :
        /\ RefreshBody(wf.vault, answer, enumeration, outcome)
        /\ wf' = [wf EXCEPT !.pc = "idle", !.listed = outcome]
    /\ UNCHANGED <<fs, eng, hist, now, customBackupName, db, refresh, boot, ops>>

\* lines 119-127 with the button's guard of line 241, the user confirming
RestoreClick ==
    /\ CanRestore
    /\ ops < MaxOps
    /\ ops' = ops + 1
    /\ state' = [state EXCEPT !.isLoading = TRUE, !.statusMessage = "Restoring backup..."]
    /\ wf' = [NoWorkflow EXCEPT !.pc = "r1", !.op = "restore", !.src = state.sourcePath,
                                !.vault = state.backupPath, !.backups = state.backups,
                                !.selected = selectedBackup]
    /\ refresh' = Overtaken(refresh)
    /\ UNCHANGED <<fs, eng, hist, now, listed, customBackupName, selectedBackup, db,
                   granted, boot>>

\* line 129
RestoreVerifySource ==
    /\ wf.pc = "r1"
    /\ \E answer \in Answers :
        LET hasSourcePerm == VerifyPermission(granted, wf.src, TRUE, answer)
        IN  /\ granted' = hasSourcePerm.granted
            /\ wf' = [wf EXCEPT !.pc = "r2", !.srcOk = Answered(hasSourcePerm.ok)]
    /\ UNCHANGED <<fs, eng, hist, now, listed, state, customBackupName, selectedBackup,
                   db, refresh, boot, ops>>

\* lines 130-139: the vault's permission, the selected record, and the call of
\* clearDirectory
RestoreVerifyVault ==
    /\ wf.pc = "r2"
    /\ \E answer \in Answers :
        LET hasBackupPerm == VerifyPermission(granted, wf.vault, FALSE, answer)
            found == {i \in DOMAIN wf.backups : wf.backups[i].name = wf.selected}
            locals == [wf EXCEPT !.vaultOk = Answered(hasBackupPerm.ok)]
        IN  /\ granted' = hasBackupPerm.granted
            /\ IF PermissionsMissing(wf.srcOk = "yes", hasBackupPerm.ok)
               THEN /\ Failed(locals, "Restore", "Permissions not granted.")
                    /\ eng' = eng
               ELSE IF found = {}
               THEN /\ Failed(locals, "Restore", "Backup folder not found.")
                    /\ eng' = eng
               ELSE LET backupToRestore ==
                            wf.backups[CHOOSE i \in found : \A j \in found : i <= j]
                    IN  /\ EngineCall("clear", wf.src, wf.src)
                        /\ wf' = [locals EXCEPT !.pc = "r3",
                                                !.folder = backupToRestore.handle]
                        /\ state' = state
    /\ UNCHANGED <<fs, hist, now, listed, customBackupName, selectedBackup, db, refresh,
                   boot, ops>>

\* line 140 once clearDirectory has returned, or the catch of line 144
RestoreCleared ==
    /\ wf.pc = "r3"
    /\ eng.st \in {"ok", "err"}
    /\ IF Resolved(eng)
       THEN /\ EngineCall("copy", wf.folder, wf.src)
            /\ wf' = [wf EXCEPT !.pc = "r4"]
            /\ state' = state
       ELSE /\ Failed(wf, "Restore", eng.msg)
            /\ eng' = eng
    /\ UNCHANGED <<fs, hist, now, listed, customBackupName, selectedBackup, db, granted,
                   refresh, boot, ops>>

\* line 142 once copyDirectory has returned, or the catch of line 144
RestoreFinish ==
    /\ wf.pc = "r4"
    /\ eng.st \in {"ok", "err"}
    /\ IF Resolved(eng)
       THEN /\ state' = [state EXCEPT !.statusMessage = "Restore completed successfully!",
                                      !.isLoading = FALSE]
            /\ wf' = [wf EXCEPT !.pc = "idle"]
       ELSE Failed(wf, "Restore", eng.msg)
    /\ UNCHANGED <<fs, eng, hist, now, listed, customBackupName, selectedBackup, db,
                   granted, refresh, boot, ops>>

\* a second passes (before the one place that reads the clock for a name, line 104)
Second ==
    /\ wf.pc = "b2"
    /\ Earlier(now, AddMs(Noon, MaxSeconds * 1000))
    /\ now' = AddMs(now, 1000)
    /\ UNCHANGED <<fs, eng, hist, listed, appVars>>

Engine == EngineStep /\ UNCHANGED <<now, listed, appVars>>

Next ==
    \/ Boot
    \/ Pick
    \/ Refresh
    \/ TypeLabel
    \/ SelectBackup
    \/ BackupClick
    \/ BackupVerifySource
    \/ BackupVerifyVault
    \/ BackupFinish
    \/ BackupRefresh
    \/ RestoreClick
    \/ RestoreVerifySource
    \/ RestoreVerifyVault
    \/ RestoreCleared
    \/ RestoreFinish
    \/ Second
    \/ Engine

Spec == Init /\ [][Next]_vars

----------------------------------------------------------------------------
(* What the workflows guarantee *)

RestoreSucceeded ==
    /\ wf.op = "restore" /\ wf.pc = "idle"
    /\ state.statusMessage = "Restore completed successfully!"

\* the disk when the restore that has just ended called clearDirectory
BeforeRestore == hist[Len(hist) - 1].before

\* C1: restore is clear-then-copy.  When handleRestore has finished with its
\* success status, having restored a backup B that is separate from the source,
\* the source holds exactly the files and subdirectories B held when the restore
\* began, with their contents, and nothing else of what it held before.
C1_RestoreReplaces ==
    RestoreSucceeded /\ Disjoint(wf.folder, wf.src) =>
        /\ Subtree(fs, wf.src) = Subtree(BeforeRestore, wf.folder)
        /\ Subtree(fs, wf.folder) = Subtree(BeforeRestore, wf.folder)

\* a successful restore of a backup holding a file into a source that held an
\* entry the backup does not have
C1_Witness ==
    /\ RestoreSucceeded /\ Disjoint(wf.folder, wf.src)
    /\ \E r \in DOMAIN Subtree(fs, wf.folder) : IsFile(fs, wf.folder \o r)
    /\ DOMAIN Subtree(BeforeRestore, wf.src) \ DOMAIN Subtree(BeforeRestore, wf.folder) # {}
    /\ Subtree(fs, wf.src) = Subtree(BeforeRestore, wf.folder)

\* a step of handleBackup itself
BackupStep == wf.op = "backup" /\ wf' # wf

\* C2: in handleBackup, when verifyPermission returns false for the source or for
\* the vault, nothing is created or written on the disk and the catalog is not
\* refreshed: no refreshBackups call is made, nothing is listed, state.backups
\* stays, and the workflow ends there.
C2_DeniedBackupWritesNothing ==
    [][/\ BackupStep /\ wf.pc = "b1" => fs' = fs /\ refresh' = refresh
       /\ BackupStep /\ wf.pc = "b2" /\ (wf.srcOk = "no" \/ wf'.vaultOk = "no") =>
            /\ fs' = fs
            /\ refresh' = refresh /\ listed' = listed
            /\ state'.backups = state.backups
            /\ wf'.pc = "idle" /\ ~state'.isLoading]_vars

\* a backup that ended because the source's permission was denied though the
\* vault's was granted
C2_Witness ==
    /\ wf.op = "backup" /\ wf.pc = "idle"
    /\ wf.srcOk = "no" /\ wf.vaultOk = "yes"
    /\ state.statusMessage = "Backup failed: Permissions not granted by user."

\* C3: round trip.  When a successful backup has been followed at once by a
\* successful restore of that same backup, the source holds exactly the files
\* and contents it held when the backup began.
C3_RoundTrip ==
    LET n == Len(hist)
    IN  /\ RestoreSucceeded
        /\ n >= 3
        /\ hist[n - 2].op = "copy" /\ hist[n - 2].st = "ok"
        /\ hist[n - 2].src = wf.src /\ hist[n - 2].tgt = wf.folder
        /\ hist[n - 1].op = "clear" /\ hist[n - 1].src = wf.src
        => Subtree(fs, wf.src) = Subtree(hist[n - 2].before, wf.src)

\* the workflow in progress has had verifyPermission return true for handle h
\* in the mode the access needs
VerifiedSource == wf.srcOk = "yes"
VerifiedVault == wf.vaultOk = "yes"

\* C13: permission gates every file-system access of the workflows.  While an
\* engine runs for a workflow, what it writes or removes lies under a reference
\* for which this invocation's verifyPermission returned true in read-write
\* mode, and what it reads or enumerates lies under a reference for which this
\* invocation's verifyPermission returned true; the permissions then stand.
C13_PermissionGates ==
    eng.st = "run" =>
        /\ wf.op = "backup" =>
              /\ VerifiedSource /\ IsPrefix(wf.src, eng.src)
              /\ VerifiedVault /\ IsPrefix(wf.vault, eng.tgt)
              /\ Standing(granted, eng.src, "read")
              /\ Standing(granted, eng.tgt, "readwrite")
        /\ wf.op = "restore" /\ eng.op = "clear" =>
              /\ VerifiedSource /\ eng.src = wf.src
              /\ Standing(granted, eng.src, "readwrite")
        /\ wf.op = "restore" /\ eng.op = "copy" =>
              /\ VerifiedSource /\ eng.tgt = wf.src
              /\ VerifiedVault /\ IsPrefix(wf.vault, eng.src)
              /\ Standing(granted, eng.src, "read")
              /\ Standing(granted, eng.tgt, "readwrite")

\* a step of handleRestore itself
RestoreStep == wf.op = "restore" /\ wf' # wf

\* the selected name is not the name of a record of the catalog the click saw
NotInCatalog == \A i \in DOMAIN wf.backups : wf.backups[i].name # wf.selected

\* C14: a restore that fails before mutation leaves the source untouched.  When
\* in handleRestore verifyPermission returns false for the source or the vault,
\* or the selected name is not in the catalog, neither clearDirectory nor
\* copyDirectory is called, the disk (and so the source tree) stays as it is,
\* and the workflow ends with a status reporting that the restore failed.
C14_FailedRestoreTouchesNothing ==
    [][/\ RestoreStep /\ wf.pc = "r1" => fs' = fs /\ eng' = eng /\ hist' = hist
       /\ RestoreStep /\ wf.pc = "r2"
             /\ (wf.srcOk = "no" \/ wf'.vaultOk = "no" \/ NotInCatalog) =>
            /\ fs' = fs /\ eng' = eng /\ hist' = hist
            /\ wf'.pc = "idle" /\ ~state'.isLoading
            /\ state'.statusMessage \in
                  {"Restore failed: Permissions not granted.",
                   "Restore failed: Backup folder not found."}]_vars

\* a restore that ended because the selected name was in no record, both
\* permissions granted
C14_Witness ==
    /\ wf.op = "restore" /\ wf.pc = "idle"
    /\ wf.srcOk = "yes" /\ wf.vaultOk = "yes"
    /\ wf.selected # "" /\ NotInCatalog
    /\ state.statusMessage = "Restore failed: Backup folder not found."
    /\ hist = << >>

\* a restore that ended because the source's permission was denied
C14_WitnessDenied ==
    /\ wf.op = "restore" /\ wf.pc = "idle"
    /\ wf.srcOk = "no"
    /\ state.statusMessage = "Restore failed: Permissions not granted."

\* a step with which a backup or a restore ends
WorkflowEnds == wf.pc # "idle" /\ wf'.pc = "idle"

\* some step of the workflow that ends failed: a permission was denied, an
\* engine threw, the selected backup was not found, or the refresh that follows
\* a backup was denied or threw
StepFailed ==
    \/ wf'.srcOk = "no" \/ wf'.vaultOk = "no"
    \/ wf.pc \in {"b3", "r3", "r4"} /\ eng.st = "err"
    \/ wf.pc = "b2" /\ wf'.folder = Null
    \/ wf.pc = "r2" /\ NotInCatalog
    \/ wf'.listed \in {"denied", "caught"}

ReportsFailure(status) ==
    \E what \in {"Backup", "Restore"} :
        LET head == what \o " failed: "
        IN  Len(status) >= Len(head) /\ SubSeq(status, 1, Len(head)) = head

\* C15: every failure ends in a terminal status message.  Whenever a step of a
\* backup or a restore fails, the catalog refresh that follows a backup
\* included, the workflow ends with isLoading false and a status message that
\* reports the failure, never with one that reports success.
C15_FailureIsReported ==
    [][WorkflowEnds /\ StepFailed =>
          ~state'.isLoading /\ ReportsFailure(state'.statusMessage)]_vars

\* a click starts a workflow
WorkflowStarts == wf' # wf /\ wf'.pc \in {"b1", "r1"}

\* handleBackup or handleRestore has been called and has not returned
InProgress == wf.pc # "idle"

\* C16: the workflows are serialized.  A backup or a restore starts only when no
\* backup or restore on the same source or vault is in progress, whatever the
\* interleaving of the user's clicks with the steps of a running workflow.
C16_WorkflowsSerialized ==
    [][WorkflowStarts /\ (wf'.src = wf.src \/ wf'.vault = wf.vault) => ~InProgress]_vars

\* a step in which a clearDirectory call is left before its loop is done
ClearAborted ==
    /\ Running("clear")
    /\ eng'.stack = << >>
    /\ ~(IsDir(fs, Top.src) /\ Exhausted(fs, Top))

\* C18: clearDirectory is not atomic across entries.  When removing an entry
\* fails the call rejects to its caller, the entries removed before stay removed
\* and the others are left as they are; handleRestore then does not start
\* copyDirectory and ends with a status reporting that the restore failed.
C18_ClearFailureStopsRestore ==
    [][/\ ClearAborted =>
            /\ eng'.st = "err"
            /\ fs' = fs
            /\ \A n \in Top.seen : ~Exists(fs', Top.src \o <<n>>)
       /\ RestoreStep /\ wf.pc = "r3" /\ eng.st = "err" =>
            /\ eng' = eng /\ fs' = fs /\ hist' = hist
            /\ wf'.pc = "idle" /\ ~state'.isLoading
            /\ state'.statusMessage = "Restore failed: " \o eng.msg]_vars

\* a restore that ended because clearDirectory failed partway: an entry of the
\* source is gone, another is still there, and no copy followed
C18_Witness ==
    /\ wf.op = "restore" /\ wf.pc = "idle"
    /\ hist # << >>
    /\ LET h == hist[Len(hist)]
       IN  /\ h.op = "clear" /\ h.st = "err" /\ fs = h.after
           /\ ChildNames(h.after, h.src) # {}
           /\ ChildNames(h.after, h.src) # ChildNames(h.before, h.src)
    /\ state.statusMessage = "Restore failed: " \o IOFailure

\* the name of the folder the backup wrote to
NewFolderName == wf.folder[Len(wf.folder)]

\* C19: after every successful backup (copyDirectory returned without failure)
\* handleBackup refreshes the catalog, the refresh is not denied, and once it
\* has listed the vault state.backups holds a record whose name is the name of
\* the folder just created (and whose handle is that folder).
C19_BackupIsListed ==
    [][/\ BackupStep /\ wf.pc = "b3" /\ eng.st = "ok" => wf'.pc = "b4" /\ wf'.folder = wf.folder
       /\ BackupStep /\ wf.pc = "b4" /\ wf'.pc = "idle" =>
            /\ wf'.listed # "denied"
            /\ wf'.listed = "listed" =>
                 \E i \in DOMAIN state'.backups :
                     /\ state'.backups[i].name = NewFolderName
                     /\ state'.backups[i].handle = wf.folder]_vars

\* a backup labelled " b " has been listed as "b" next to a folder that was in
\* the vault before
C19_Witness ==
    /\ wf.op = "backup" /\ wf.pc = "idle" /\ wf.listed = "listed"
    /\ wf.label = " b " /\ wf.folder = wf.vault \o <<"b">>
    /\ Len(state.backups) = 2
    /\ \E i \in DOMAIN state.backups : state.backups[i].name = "b"

----------------------------------------------------------------------------
(* How the engines fail (SpecEngine) *)

\* a step in which a copyDirectory call is left before its loop is done
CopyAborted ==
    /\ Running("copy")
    /\ Len(eng'.stack) < Len(eng.stack)
    /\ ~(IsDir(fs, Top.src) /\ Exhausted(fs, Top))

\* C17: when a read or write step of copyDirectory fails, no loop at any level
\* goes on (no remaining sibling is copied), the call rejects to its caller, and
\* everything on the disk at that moment, what was written to the target
\* included, stays in place.
C17_CopyFailureAborts ==
    [][CopyAborted =>
          /\ eng'.st = "err" /\ eng'.stack = << >>
          /\ Len(hist') = Len(hist) + 1 /\ hist'[Len(hist')].st = "err"
          /\ \A q \in DOMAIN fs : Exists(fs', q) /\ fs'[q] = fs[q]]_vars

\* a copy between two separate trees failed below the top level: something was
\* already written two levels down, it is still there, and an entry of the
\* source's top level was never copied
C17_Witness ==
    \E i \in Calls("copy", "err") :
        LET h == hist[i]
        IN  /\ i = Len(hist) /\ eng.st = "err" /\ fs = h.after
            /\ Disjoint(h.src, h.tgt)
            /\ \E q \in DOMAIN h.after \ DOMAIN h.before : Len(q) >= Len(h.tgt) + 2
            /\ \E n \in ChildNames(h.before, h.src) : ~Exists(h.after, h.tgt \o <<n>>)

----------------------------------------------------------------------------
(* SpecRun: one call of an engine, from its first step on, every step of the *)
(* file system returning in the end (weak fairness of the engine's steps).   *)
(* The disks are one level shallower than MaxPathLen, so that a copy between *)
(* any two folders that are not one inside the other fits under MaxPathLen.  *)

ShallowDisks == {f \in InitialDisks : \A q \in DOMAIN f : Len(q) < MaxPathLen}

InitRun ==
    /\ fs \in ShallowDisks
    /\ \E s \in Dirs(fs), t \in Dirs(fs) :
          eng \in {Called(fs, "copy", s, t), Called(fs, "clear", s, s)}
    /\ hist = << >>
    /\ now = Noon
    /\ listed = NoListing
    /\ NoApp

NextRun == EngineStep /\ UNCHANGED <<now, listed, appVars>>

SpecRun == InitRun /\ [][NextRun]_vars /\ WF_vars(NextRun)

\* the call has ended, in completion or in failure
Settled == eng.st \in {"ok", "err"}

\* how many levels of folders lie below folder d
DirHeight(f, d) ==
    LET below == {Len(q) - Len(d) : q \in {r \in Dirs(f) : IsPrefix(d, r)}}
    IN  CHOOSE h \in below : \A k \in below : k <= h

\* the recursion is no deeper than the tree the call began on
RecursionBounded == Len(eng.stack) <= 1 + DirHeight(eng.before, eng.src)

\* C20: once copyDirectory or clearDirectory has begun on a finite tree it ends,
\* in completion or in failure, whichever folders it was called on, given that
\* every step of the file system returns: its recursion goes no deeper than the
\* tree it began on, and the call settles.
C20_EnginesTerminate == []RecursionBounded /\ <>Settled

----------------------------------------------------------------------------
(* The names of the backup folders (Spec) *)

\* the step of handleBackup that creates the backup folder (line 108)
FolderCreated == BackupStep /\ wf.pc = "b2" /\ wf'.pc = "b3"

CreatedName == wf'.folder[Len(wf'.folder)]

\* the label is not empty after trimming
NonBlank(label) == \E k \in 1..Len(label) : Char(label, k) # " "

\* name is "Backup_" followed by the date and time of `clock` (UTC), second by second
IsDefaultName(name, clock) ==
    LET date == CivilFromDays(clock[1])
        secs == clock[2] \div 1000
        Field(i, j) == SubSeq(name, i, j)
        Numeric(i, j) == \A k \in i..j : IsDigit(Char(name, k))
    IN  /\ Len(name) = 26
        /\ Field(1, 7) = "Backup_"
        /\ Numeric(8, 11) /\ Numeric(13, 14) /\ Numeric(16, 17)
        /\ Numeric(19, 20) /\ Numeric(22, 23) /\ Numeric(25, 26)
        /\ ParseInt(Field(8, 11)) = date[1]
        /\ ParseInt(Field(13, 14)) = date[2]
        /\ ParseInt(Field(16, 17)) = date[3]
        /\ ParseInt(Field(19, 20)) = secs \div 3600
        /\ ParseInt(Field(22, 23)) = (secs \div 60) % 60
        /\ ParseInt(Field(25, 26)) = secs % 60

\* name is label without the spaces around it
IsTrimmed(name, label) ==
    \E i \in 1..Len(label), j \in 1..Len(label) :
        /\ name = SubSeq(label, i, j)
        /\ Char(label, i) # " " /\ Char(label, j) # " "
        /\ \A k \in 1..Len(label) : (k < i \/ k > j) => Char(label, k) = " "

\* C22 as stated: the folder a backup creates is named by the label taken
\* verbatim whenever the label is non-empty after trimming, and otherwise by
\* "Backup_" followed by the creation timestamp.
C22_AsStated ==
    [][FolderCreated =>
          IF NonBlank(wf.label) THEN CreatedName = wf.label
          ELSE IsDefaultName(CreatedName, now)]_vars

\* C22: the folder a backup creates is named by the label with the whitespace
\* around it trimmed off whenever the label is non-empty after trimming, and
\* otherwise by "Backup_" followed by the creation timestamp.
C22_LabelTrimmed ==
    [][FolderCreated =>
          IF NonBlank(wf.label) THEN IsTrimmed(CreatedName, wf.label)
          ELSE IsDefaultName(CreatedName, now)]_vars

\* a backup labelled " b " wrote to the folder "b", its copy done
C22_Witness ==
    /\ wf.op = "backup" /\ wf.pc = "b4"
    /\ wf.label = " b " /\ wf.folder = wf.vault \o <<"b">>

\* a backup without a label wrote to a folder named after a later second
C22_WitnessDefault ==
    /\ wf.op = "backup" /\ wf.pc = "b4" /\ wf.label = ""
    /\ now # Noon /\ IsDefaultName(NewFolderName, now)

\* name has the shape of a default name
IsDefaultShaped(name) ==
    /\ Len(name) = 26
    /\ SubSeq(name, 1, 7) = "Backup_"
    /\ \A k \in {8, 9, 10, 11, 13, 14, 16, 17, 19, 20, 22, 23, 25, 26} :
          IsDigit(Char(name, k))

\* the time a default name was made at
CreationTime(name) ==
    <<DaysFromCivil(ParseInt(SubSeq(name, 8, 11)), ParseInt(SubSeq(name, 13, 14)),
                    ParseInt(SubSeq(name, 16, 17))),
      ((ParseInt(SubSeq(name, 19, 20)) * 60 + ParseInt(SubSeq(name, 22, 23))) * 60
          + ParseInt(SubSeq(name, 25, 26))) * 1000>>

\* C23: the backups made without a label get names from which listBackups
\* derives their creation time: in the catalog they stand newest-created first,
\* each with the time its name holds and not the fallback "now".
C23_DefaultNamesCarryTime ==
    LET unlabeled == {i \in DOMAIN state.backups : IsDefaultShaped(state.backups[i].name)}
    IN  /\ \A i \in unlabeled :
              state.backups[i].timestamp = CreationTime(state.backups[i].name)
        /\ \A i \in unlabeled, j \in unlabeled :
              i < j => ~Earlier(CreationTime(state.backups[i].name),
                                CreationTime(state.backups[j].name))

\* the step with which handleBackup sets its success status (line 111)
BackupSucceeds == BackupStep /\ wf.pc = "b3" /\ wf'.pc = "b4"

\* C25: a successful backup is a faithful snapshot.  When handleBackup sets its
\* success status the folder it wrote to holds exactly the files and contents
\* of the source tree at that time, also when the label (or default name) is
\* the name of a folder the vault already held.
C25_BackupIsSnapshot ==
    [][BackupSucceeds => Subtree(fs', wf.folder) = Subtree(fs', wf.src)]_vars

\* C26: the workflows only mutate their destination.  No step of a backup
\* creates, changes or removes an entry of the source, and no step of a restore
\* creates, changes or removes an entry of the vault (the selected backup is
\* as it was), whichever folders the user picked as source and vault.
C26_OnlyDestinationMutated ==
    [][/\ wf.op = "backup" => Subtree(fs', wf.src) = Subtree(fs, wf.src)
       /\ wf.op = "restore" => Subtree(fs', wf.vault) = Subtree(fs, wf.vault)]_vars

----------------------------------------------------------------------------
(* The catalog and the selection the App holds (Spec) *)

\* record r is of an immediate subdirectory of the folder held as the vault
OfCurrentVault(r) == r.handle = state.backupPath \o <<r.name>>

\* C24: the catalog the App holds belongs to the current vault.  Whatever init,
\* pickDirectory, the refreshes (denied ones and overlapping ones that end out
\* of order included), backups and restores have done, once no refresh is
\* pending every record of state.backups is of an immediate subdirectory of
\* state.backupPath, so that a restore copies only from the vault it verified.
C24_CatalogOfCurrentVault ==
    refresh = EmptyBag /\ wf.pc # "b4" =>
        \A i \in DOMAIN state.backups : OfCurrentVault(state.backups[i])

\* C27: in every reachable state the selected backup name is empty or the
\* name of a record of state.backups; after a refresh that lists nothing no
\* stale name stays selected.
C27_SelectionInCatalog ==
    \/ selectedBackup = ""
    \/ \E i \in DOMAIN state.backups : state.backups[i].name = selectedBackup

----------------------------------------------------------------------------
(* SpecPicker: the App's start, its refreshes, and pickDirectory calls whose *)
(* outcome and effect are kept in hist.                                      *)

\* what pickDirectory can change
Held == [state |-> state, db |-> db, refresh |-> refresh, granted |-> granted,
         selectedBackup |-> selectedBackup]

CallPickDirectory ==
    /\ ~boot
    /\ Len(hist) < MaxRuns
    /\ \E type \in {"SOURCE", "BACKUP"}, picker \in Pickers, handle \in Dirs(fs) :
        /\ PickOutcome(type, picker, handle)
        /\ hist' = Append(hist, [op |-> "pick", type |-> type, picker |-> picker,
                                 before |-> Held,
                                 after |-> [state |-> state', db |-> db',
                                            refresh |-> refresh', granted |-> granted',
                                            selectedBackup |-> selectedBackup]])
    /\ UNCHANGED <<fs, eng, now, listed, customBackupName, selectedBackup, wf, boot, ops>>

NextPicker == Boot \/ Refresh \/ CallPickDirectory

SpecPicker == Init /\ [][NextPicker]_vars

\* C21: when the user dismisses the folder picker, pickDirectory changes
\* nothing: the status message, the source and vault held in state, the handles
\* persisted under 'sourcePath' and 'backupPath' and the catalog are as before.
C21_DismissedPickerChangesNothing ==
    \A i \in DOMAIN hist :
        hist[i].picker = "AbortError" => hist[i].after = hist[i].before

\* the picker was dismissed after a vault had been linked and listed: the status
\* still says so
C21_Witness ==
    /\ Len(hist) = 2
    /\ hist[1].picker = "chosen" /\ hist[1].type = "BACKUP"
    /\ hist[2].picker = "AbortError"
    /\ hist[2].before.state.statusMessage = "Vault path linked."
    /\ hist[2].before.state.backups # << >>
    /\ state = hist[2].after.state

====
